---- MODULE Spec2Model ----
(***************************************************************************)
(* Model of azure/storage/filedatalake/_upload_helper.py:                  *)
(* upload_datalake_file, the create -> upload chunks -> flush protocol of  *)
(* the Data Lake file client, run by two writers against one destination   *)
(* path of the remote store.                                               *)
(*                                                                         *)
(* A run is either one writer drawing its arguments from the whole bounded *)
(* argument space, or two writers racing on the path with arguments from a *)
(* smaller space.                                                          *)
(* Every network call (create, append of one chunk, flush) takes effect at *)
(* the store atomically; the steps of the two writers interleave freely.   *)
(*                                                                         *)
(* SpecPure runs the pure computations (the choice of the upload path, the *)
(* partition of an upload into chunks, the input detection of              *)
(* UnifiedEvaluator) alone, over all their inputs.                         *)
(* SpecLive adds the fairness under which every call ends.                 *)
(***************************************************************************)
EXTENDS Integers, Sequences, FiniteSets, TLC

\* ------------------------------------------------------------------ bounds
MaxLen == 2            \* largest declared length / stream size, in bytes
MaxConcurrency == 2    \* largest max_concurrency argument
MaxTotal == 7          \* largest total size partitioned in SpecPure

Writers == {1, 2}
Other(w) == 3 - w

\* ------------------------------------------------------------------ values
None == 0              \* Python None: a predicate that is not set
Star == -1             \* the '*' of if-none-match / if-match
NoLength == -1         \* length=None: the size of the stream is not declared
FirstEtag == 1         \* version token of a file that exists before any call

Offsets == 0 .. (MaxLen - 1)
ChunkSizes == 1 .. MaxLen

\* modified_access_conditions: the four predicates of a conditional request
Mac(im, inm, ims, ius) ==
    [if_match |-> im, if_none_match |-> inm,
     if_modified_since |-> ims, if_unmodified_since |-> ius]

NoConditions == Mac(None, None, None, None)

\* the predicates a caller may supply: each unset, or set to a value that
\* refers to the file as it is before the call (its ETag, its date) or '*'
CallerMacSpace ==
    { Mac(im, inm, ims, ius) :
        im \in {None, FirstEtag}, inm \in {None, Star},
        ims \in {None, FirstEtag}, ius \in {None, FirstEtag} }

\* properties / umask / permissions: set (TRUE) or left None (FALSE)
KwSpace == [properties : BOOLEAN, umask : BOOLEAN, permissions : BOOLEAN]
NoKw == [properties |-> FALSE, umask |-> FALSE, permissions |-> FALSE]

LengthSpace == {NoLength} \cup (0 .. MaxLen)

\* the arguments of one call of upload_datalake_file; stream_size is the
\* number of bytes the stream really holds, which may be fewer than declared
FullArgs ==
    { a \in [length : LengthSpace, overwrite : BOOLEAN, kw : KwSpace,
             mac : CallerMacSpace, chunk_size : ChunkSizes,
             max_concurrency : 1 .. MaxConcurrency,
             stream_size : 0 .. MaxLen] :
        a.length # NoLength => a.stream_size <= a.length }

\* the arguments of two racing writers
RaceArgs ==
    { a \in FullArgs :
        /\ a.length \in 1 .. MaxLen
        /\ a.stream_size = a.length
        /\ a.kw = NoKw
        /\ a.mac \in {NoConditions, Mac(FirstEtag, None, None, None)}
        /\ a.chunk_size = 1
        /\ a.max_concurrency = 1 }

VARIABLES
    pc,         \* where each writer is in upload_datalake_file
    args,       \* the arguments of each writer's call
    mac,        \* each writer's modified_access_conditions object
    strategy,   \* the upload path chosen: "none", "sequential", "substream"
    chunk,      \* the state of each chunk of each writer's upload
    progress,   \* bytes reported uploaded by each writer's scheduler
    result,     \* how each writer's call ended
    createLog,  \* the create call each writer issued
    flushLog,   \* the flush call each writer issued
    interfered, \* another writer's create or flush took effect after this
                \* writer's create and before its flush
    remote,     \* the destination path at the store
    probe       \* SpecPure: the inputs and the output of a pure computation

sessionVars == <<pc, args, mac, strategy, chunk, progress, result,
                 createLog, flushLog, interfered, remote>>

vars == <<sessionVars, probe>>

\* ------------------------------------------------- the code's computations

\* Python truthiness of a predicate value: None is false, an ETag, a date or
\* '*' is true
Truthy(x) == x # None

\* mutant: the test of _any_conditions inverted
any_conditions_Inverted(m) ==
    ~(\/ Truthy(m.if_modified_since)
      \/ Truthy(m.if_unmodified_since)
      \/ Truthy(m.if_none_match)
      \/ Truthy(m.if_match))

\* _any_conditions: whether any of the four predicates is set
any_conditions(m) ==
    \/ Truthy(m.if_modified_since)
    \/ Truthy(m.if_unmodified_since)
    \/ Truthy(m.if_none_match)
    \/ Truthy(m.if_match)

\* mutant: the default is injected whatever the caller supplied
InjectDefault_Always(m) == [m EXCEPT !.if_none_match = Star]

\* mutant: the default is never injected
InjectDefault_Never(m) == m

\* overwrite disabled: without access conditions the object gets
\* if_none_match = '*'
InjectDefault(m) ==
    IF ~any_conditions(m) THEN [m EXCEPT !.if_none_match = Star] ELSE m

\* mutant: the shortcut is never taken
IsZeroLength_Never(length) == FALSE

\* mutant: the shortcut taken for an absent length instead of a zero one
IsZeroLength_Absent(length) == length = NoLength

\* "if length == 0: return {}"; an absent length is not zero
IsZeroLength(length) == length = 0

\* mutant: only properties are looked at
KwSet_PropertiesOnly(kw) == kw.properties

\* "properties or umask or permissions"
KwSet(kw) == kw.properties \/ kw.umask \/ kw.permissions

\* mutant: the check nested under the test of _any_conditions
RejectsKw_OnlyDefault(a) == ~any_conditions(a.mac) /\ KwSet(a.kw)

\* the check that raises ValueError stands under "if not overwrite:", beside
\* the test of _any_conditions and not under it
RejectsKw(a) == KwSet(a.kw)

\* mutant: one upload more than max_concurrency
SchedulerLimit_PlusOne(a) == a.max_concurrency + 1

\* max_concurrency is handed to the upload call as it is
SchedulerLimit(a) == a.max_concurrency

\* mutant: create stripped of the existence predicates
CreateConditions_Unconditional(m) ==
    [m EXCEPT !.if_match = None, !.if_none_match = None]

\* the conditions the create call is given: the object as it is at the call
CreateConditions(m) == m

\* mutant: the ETag is pinned and the caller's other predicates are kept
PinToCreated_KeepOthers(m, etag) == [m EXCEPT !.if_match = etag]

\* mutant: the predicates are cleared and the ETag is not pinned
PinToCreated_Unpinned(m, etag) == NoConditions

\* after create the object is rewritten to pin the ETag returned by create
PinToCreated(m, etag) ==
    [m EXCEPT !.if_match = etag,
              !.if_none_match = None,
              !.if_modified_since = None,
              !.if_unmodified_since = None]

\* mutant: the chunk uploads are given the conditions object
UploaderConditions_Shared(m) == m

\* the conditions a chunk upload is given: modified_access_conditions is
\* popped from kwargs and is not among the arguments of upload_data_chunks or
\* upload_substream_blocks, so a chunk upload carries none
UploaderConditions(m) == NoConditions

\* mutant: an absent length is flushed as position 0
FlushPosition_AbsentAsZero(length) == IF length = NoLength THEN 0 ELSE length

\* mutant: flush issued without the conditions object
FlushConditions_None(m) == NoConditions

\* mutant: flush at the start of the file
FlushPosition_Start(length) == 0

\* the conditions and the position the flush call is given
FlushConditions(m) == m
FlushPosition(length) == length

\* mutant: "or" read as binding tighter than "and", so that a stream whose
\* seekable() is true always takes the substream path
UseOriginalUploadPath_OrFirst(use_byte_buffer, validate_content, chunk_size, threshold, has_seekable, seekable, has_seek, has_tell) ==
    /\ (use_byte_buffer \/ validate_content \/ chunk_size < threshold
           \/ has_seekable)
    /\ (~seekable \/ ~has_seek \/ ~has_tell)

\* use_original_upload_path, with Python's precedence of "and" over "or"
UseOriginalUploadPath(use_byte_buffer, validate_content, chunk_size, threshold, has_seekable, seekable, has_seek, has_tell) ==
    \/ use_byte_buffer
    \/ validate_content
    \/ chunk_size < threshold
    \/ (has_seekable /\ ~seekable)
    \/ ~has_seek
    \/ ~has_tell

\* the upload paths the call can take for a chunk size, over every stream
\* and every file_settings
SelectablePaths(chunk_size) ==
    { IF UseOriginalUploadPath(use_byte_buffer, validate_content, chunk_size,
                               threshold, has_seekable, seekable, has_seek,
                               has_tell)
      THEN "sequential" ELSE "substream" :
        use_byte_buffer \in BOOLEAN, validate_content \in BOOLEAN,
        threshold \in {1, MaxLen + 1}, has_seekable \in BOOLEAN,
        seekable \in BOOLEAN, has_seek \in BOOLEAN, has_tell \in BOOLEAN }

\* ------------------------------------------------------------ the chunks

\* the number of bytes the upload reads: the declared length, or the whole
\* stream when none is declared
UploadSize(a) == IF a.length = NoLength THEN a.stream_size ELSE a.length

NumChunks(a) == (UploadSize(a) + a.chunk_size - 1) \div a.chunk_size
ChunkOffset(a, k) == (k - 1) * a.chunk_size
\* mutant: the last chunk is not truncated
ChunkLength_Full(a, k) == a.chunk_size

\* the length of chunk k: chunk_size, the last chunk truncated
ChunkLength(a, k) ==
    IF ChunkOffset(a, k) + a.chunk_size <= UploadSize(a)
    THEN a.chunk_size
    ELSE UploadSize(a) - ChunkOffset(a, k)
ChunkRange(a, k) == ChunkOffset(a, k) .. (ChunkOffset(a, k) + ChunkLength(a, k) - 1)

\* mutant: the feeder does not notice the end of the stream
Readable_Always(a, k) == TRUE

\* whether the stream holds all the bytes of chunk k
Readable(a, k) == ChunkOffset(a, k) + ChunkLength(a, k) <= a.stream_size

\* the bytes of a set of chunks
RECURSIVE SumLength(_, _)
SumLength(a, ks) ==
    IF ks = {} THEN 0
    ELSE LET k == CHOOSE i \in ks : TRUE
         IN ChunkLength(a, k) + SumLength(a, ks \ {k})

InFlight(w) == {k \in DOMAIN chunk[w] : chunk[w][k] = "inflight"}
Pending(w) == {k \in DOMAIN chunk[w] : chunk[w][k] = "pending"}
Failed(w) == {k \in DOMAIN chunk[w] : chunk[w][k] = "failed"}
Uploaded(w) == {k \in DOMAIN chunk[w] : chunk[w][k] = "ok"}
ChunksIssued(w) == {k \in DOMAIN chunk[w] : chunk[w][k] # "pending"}

\* mutant: a late update overwrites the counter
Progressed_Lost(p, len) == len

\* a successful chunk adds its length to the counter, under the lock
Progressed(p, len) == p + len

\* mutant: every successful chunk is counted
CountsProgress_Always(w) == TRUE

\* a successful chunk is counted while the upload runs and no chunk has
\* failed; later results are discarded
CountsProgress(w) == pc[w] = "upload" /\ Failed(w) = {}

\* ------------------------------------------------------- the remote store

\* whether the store accepts a request carrying conditions c for path r; the
\* version counter serves as ETag and as last-modified date
Holds(c, r) ==
    /\ Truthy(c.if_match) =>
          r.exists /\ (c.if_match = Star \/ c.if_match = r.etag)
    /\ Truthy(c.if_none_match) =>
          ~r.exists \/ (c.if_none_match # Star /\ c.if_none_match # r.etag)
    /\ Truthy(c.if_modified_since) =>
          r.exists /\ r.etag > c.if_modified_since
    /\ Truthy(c.if_unmodified_since) =>
          r.exists /\ r.etag <= c.if_unmodified_since

\* create (re)creates the file empty under a new version token
Created(r) ==
    [exists |-> TRUE, etag |-> r.etag + 1, data |-> [o \in Offsets |-> 0]]

\* an append writes the bytes of one range and leaves the token alone
Appended(r, w, range) ==
    [r EXCEPT !.data = [o \in Offsets |-> IF o \in range THEN w ELSE r.data[o]]]

\* a successful flush finalizes the file under a new version token
Flushed(r) == [r EXCEPT !.etag = r.etag + 1]

\* ------------------------------------------------------------- the results

Running == [kind |-> "none", err |-> "none", op |-> "none", at |-> 0]
Returned(kind) == [kind |-> kind, err |-> "none", op |-> "none", at |-> 0]
Raised(err, op, at) == [kind |-> "error", err |-> err, op |-> op, at |-> at]

NotIssued == [n |-> 0, cond |-> NoConditions, ok |-> FALSE, etag |-> None]
NotFlushed ==
    [n |-> 0, position |-> None, cond |-> NoConditions, close |-> FALSE,
     ok |-> FALSE, seen |-> None, data |-> [o \in Offsets |-> 0],
     unsettled |-> 0]

\* another writer's create or flush took effect: writer w's session is
\* interfered with when it has created the file and not yet flushed
Interferes(w) == createLog[w].ok /\ flushLog[w].n = 0

\* mutant: a failed create is tried again
RaiseFrom_RetryCreate(w, err, op, at) ==
    IF op = "create"
    THEN pc' = pc /\ result' = result
    ELSE /\ pc' = [pc EXCEPT ![w] = "done"]
         /\ result' = [result EXCEPT ![w] = Raised(err, op, at)]

\* mutant: an error of flush is handled and the call returns nothing
RaiseFrom_ReturnNone(w, err, op, at) ==
    /\ pc' = [pc EXCEPT ![w] = "done"]
    /\ result' = [result EXCEPT ![w] =
           IF op = "flush" THEN Returned("empty") ELSE Raised(err, op, at)]

\* mutant: the error of a chunk is swallowed and the call goes on to flush
RaiseFrom_Swallow(w, err, op, at) ==
    IF op = "chunk"
    THEN pc' = [pc EXCEPT ![w] = "flush"] /\ result' = result
    ELSE /\ pc' = [pc EXCEPT ![w] = "done"]
         /\ result' = [result EXCEPT ![w] = Raised(err, op, at)]

\* an exception leaves the call: the try block ends where it is raised, an
\* HttpResponseError is handed to process_storage_error, which raises, and
\* any other exception passes through
RaiseFrom(w, err, op, at) ==
    /\ pc' = [pc EXCEPT ![w] = "done"]
    /\ result' = [result EXCEPT ![w] = Raised(err, op, at)]

\* mutant: create is skipped
NextCall_NoCreate(overwrite) == "select"

\* the first network call of a call that passed the checks: "if overwrite:"
\* guards client.create
NextCall(overwrite) == IF overwrite THEN "create" ELSE "select"

\* ------------------------------------------------------------------- Init

NoProbe == [kind |-> "none"]

IdleArgs ==
    [length |-> 0, overwrite |-> FALSE, kw |-> NoKw, mac |-> NoConditions,
     chunk_size |-> 1, max_concurrency |-> 1, stream_size |-> 0]

Init ==
    /\ \/ /\ args \in {[w \in Writers |-> IF w = 1 THEN a ELSE IdleArgs] :
                          a \in FullArgs}
          /\ pc = [w \in Writers |-> IF w = 1 THEN "idle" ELSE "off"]
       \/ /\ args \in [Writers -> RaceArgs]
          /\ pc = [w \in Writers |-> "idle"]
    /\ mac = [w \in Writers |-> args[w].mac]
    /\ strategy = [w \in Writers |-> "none"]
    /\ chunk = [w \in Writers |-> <<>>]
    /\ progress = [w \in Writers |-> 0]
    /\ result = [w \in Writers |-> Running]
    /\ createLog = [w \in Writers |-> NotIssued]
    /\ flushLog = [w \in Writers |-> NotFlushed]
    /\ interfered = [w \in Writers |-> FALSE]
    /\ probe = NoProbe
    /\ remote \in {[exists |-> FALSE, etag |-> None, data |-> [o \in Offsets |-> 0]],
                   [exists |-> TRUE, etag |-> FirstEtag, data |-> [o \in Offsets |-> 0]]}

\* ---------------------------------------------------- upload_datalake_file

\* entry of the call up to the first network call: the zero-length return,
\* the popping of the keyword arguments and the overwrite=False checks
Upload(w) ==
    /\ pc[w] = "idle"
    /\ IF IsZeroLength(args[w].length)
       THEN /\ pc' = [pc EXCEPT ![w] = "done"]
            /\ result' = [result EXCEPT ![w] = Returned("empty")]
            /\ mac' = mac
       ELSE IF ~args[w].overwrite
       THEN /\ mac' = [mac EXCEPT ![w] = InjectDefault(mac[w])]
            /\ IF RejectsKw(args[w])
               THEN RaiseFrom(w, "ValueError", "config", 0)
               ELSE /\ pc' = [pc EXCEPT ![w] = NextCall(args[w].overwrite)]
                    /\ result' = result
       ELSE /\ pc' = [pc EXCEPT ![w] = NextCall(args[w].overwrite)]
            /\ mac' = mac
            /\ result' = result
    /\ UNCHANGED <<probe, args, strategy, chunk, progress, createLog, flushLog,
                   interfered, remote>>

\* client.create and the rewriting of the conditions that follows it; an
\* HttpResponseError goes through process_storage_error, which raises
Create(w) ==
    /\ pc[w] = "create"
    /\ LET c == CreateConditions(mac[w]) IN
       \/ \* the request fails in transport: the store is not reached
          /\ createLog' = [createLog EXCEPT ![w] =
                 [n |-> @.n + 1, cond |-> c, ok |-> FALSE, etag |-> None]]
          /\ RaiseFrom(w, "TransportError", "create", 0)
          /\ UNCHANGED <<mac, interfered, remote>>
       \/ \* the store rejects the request
          /\ ~Holds(c, remote)
          /\ createLog' = [createLog EXCEPT ![w] =
                 [n |-> @.n + 1, cond |-> c, ok |-> FALSE, etag |-> None]]
          /\ RaiseFrom(w, "PreconditionFailed", "create", 0)
          /\ UNCHANGED <<mac, interfered, remote>>
       \/ \* the store creates the file and returns its ETag
          /\ Holds(c, remote)
          /\ remote' = Created(remote)
          /\ createLog' = [createLog EXCEPT ![w] =
                 [n |-> @.n + 1, cond |-> c, ok |-> TRUE, etag |-> remote'.etag]]
          /\ mac' = [mac EXCEPT ![w] = PinToCreated(mac[w], remote'.etag)]
          /\ interfered' = [interfered EXCEPT
                 ![Other(w)] = @ \/ Interferes(Other(w))]
          /\ pc' = [pc EXCEPT ![w] = "select"]
          /\ UNCHANGED result
    /\ UNCHANGED <<probe, args, strategy, chunk, progress, flushLog>>

\* mutant: the path is chosen again while the chunks are uploaded
SelectStrategy_Reselect(w) ==
    /\ pc[w] \in {"select", "upload"}
    /\ \E path \in SelectablePaths(args[w].chunk_size) :
          /\ path = "substream" => args[w].stream_size = UploadSize(args[w])
          /\ strategy' = [strategy EXCEPT ![w] = path]
    /\ chunk' = [chunk EXCEPT ![w] =
           IF pc[w] = "select"
           THEN [k \in 1 .. NumChunks(args[w]) |-> "pending"] ELSE @]
    /\ pc' = [pc EXCEPT ![w] = "upload"]
    /\ UNCHANGED <<probe, args, mac, progress, result, createLog, flushLog,
                   interfered, remote>>

\* the choice of the upload path and the call of upload_data_chunks or
\* upload_substream_blocks, which lays out the chunks of the upload
SelectStrategy(w) ==
    /\ pc[w] = "select"
    /\ \E path \in SelectablePaths(args[w].chunk_size) :
          \* the substream path is given a stream of exactly the declared size
          /\ path = "substream" => args[w].stream_size = UploadSize(args[w])
          /\ strategy' = [strategy EXCEPT ![w] = path]
    /\ chunk' = [chunk EXCEPT ![w] = [k \in 1 .. NumChunks(args[w]) |-> "pending"]]
    /\ pc' = [pc EXCEPT ![w] = "upload"]
    /\ UNCHANGED <<probe, args, mac, progress, result, createLog, flushLog,
                   interfered, remote>>

\* ---------------------------------------------------------- the scheduler

NextPending(w) == CHOOSE i \in Pending(w) : \A j \in Pending(w) : i <= j

\* the stream ends before the next chunk is filled: the feeder raises
ShortRead(w) ==
    /\ pc[w] = "upload"
    /\ Failed(w) = {}
    /\ Pending(w) # {}
    /\ ~Readable(args[w], NextPending(w))
    /\ RaiseFrom(w, "ShortReadError", "read", NextPending(w))
    /\ UNCHANGED <<probe, args, mac, strategy, chunk, progress, createLog, flushLog,
                   interfered, remote>>

\* mutant: the scheduler goes on dispatching after a chunk has failed
Dispatch_AfterFailure(w) ==
    /\ pc[w] = "upload"
    /\ Pending(w) # {}
    /\ Cardinality(InFlight(w)) < SchedulerLimit(args[w])
    /\ Readable(args[w], NextPending(w))
    /\ chunk' = [chunk EXCEPT ![w][NextPending(w)] = "inflight"]
    /\ UNCHANGED <<probe, pc, args, mac, strategy, progress, result, createLog,
                   flushLog, interfered, remote>>

\* the scheduler starts the upload of the next chunk, in order, while fewer
\* than max_concurrency uploads are in flight and no chunk has failed
Dispatch(w) ==
    /\ pc[w] = "upload"
    /\ Failed(w) = {}
    /\ Pending(w) # {}
    /\ Cardinality(InFlight(w)) < SchedulerLimit(args[w])
    /\ Readable(args[w], NextPending(w))
    /\ chunk' = [chunk EXCEPT ![w][NextPending(w)] = "inflight"]
    /\ UNCHANGED <<probe, pc, args, mac, strategy, progress, result, createLog,
                   flushLog, interfered, remote>>

\* the store accepts the append of chunk k; the scheduler counts its bytes
\* unless the upload has failed or ended
AppendOk(w, k) ==
    /\ k \in InFlight(w)
    /\ remote.exists
    /\ Holds(UploaderConditions(mac[w]), remote)
    /\ remote' = Appended(remote, w, ChunkRange(args[w], k))
    /\ chunk' = [chunk EXCEPT ![w][k] = "ok"]
    /\ progress' = [progress EXCEPT ![w] =
           IF CountsProgress(w)
           THEN Progressed(@, ChunkLength(args[w], k)) ELSE @]
    /\ UNCHANGED <<probe, pc, args, mac, strategy, result, createLog, flushLog,
                   interfered>>

\* the append of chunk k fails: in transport, or rejected by the store
AppendFail(w, k) ==
    /\ k \in InFlight(w)
    /\ chunk' = [chunk EXCEPT ![w][k] = "failed"]
    /\ UNCHANGED <<probe, pc, args, mac, strategy, progress, result, createLog,
                   flushLog, interfered, remote>>

\* the scheduler returns normally when every chunk is uploaded; the call
\* goes on to flush_data
UploadReturns(w) ==
    /\ pc[w] = "upload"
    /\ Uploaded(w) = DOMAIN chunk[w]
    /\ pc' = [pc EXCEPT ![w] = "flush"]
    /\ UNCHANGED <<probe, args, mac, strategy, chunk, progress, result, createLog,
                   flushLog, interfered, remote>>

\* mutant: the scheduler waits until every chunk has been dispatched and has
\* completed before it raises
UploadRaises_WhenDrained(w) ==
    /\ pc[w] = "upload"
    /\ Pending(w) = {} /\ InFlight(w) = {}
    /\ \E k \in Failed(w) : RaiseFrom(w, "ChunkError", "chunk", k)
    /\ UNCHANGED <<probe, args, mac, strategy, chunk, progress, createLog, flushLog,
                   interfered, remote>>

\* the scheduler raises the error of a failed chunk
UploadRaises(w) ==
    /\ pc[w] = "upload"
    /\ \E k \in Failed(w) : RaiseFrom(w, "ChunkError", "chunk", k)
    /\ UNCHANGED <<probe, args, mac, strategy, chunk, progress, createLog, flushLog,
                   interfered, remote>>

\* ------------------------------------------------------------ flush_data

\* client.flush_data(position=length, close=True) with the conditions object
Flush(w) ==
    /\ pc[w] = "flush"
    /\ LET issued == [n |-> flushLog[w].n + 1,
                      position |-> FlushPosition(args[w].length),
                      cond |-> FlushConditions(mac[w]),
                      close |-> TRUE, ok |-> FALSE, seen |-> None,
                      data |-> [o \in Offsets |-> 0],
                      unsettled |-> Cardinality(DOMAIN chunk[w] \ Uploaded(w))]
       IN
       \/ \* the request fails in transport: the store is not reached
          /\ flushLog' = [flushLog EXCEPT ![w] = issued]
          /\ RaiseFrom(w, "TransportError", "flush", 0)
          /\ UNCHANGED <<interfered, remote>>
       \/ \* there is no file to flush
          /\ ~remote.exists
          /\ flushLog' = [flushLog EXCEPT ![w] = issued]
          /\ RaiseFrom(w, "PathNotFound", "flush", 0)
          /\ UNCHANGED <<interfered, remote>>
       \/ \* the store rejects the request
          /\ remote.exists
          /\ ~Holds(issued.cond, remote)
          /\ flushLog' = [flushLog EXCEPT ![w] =
                 [issued EXCEPT !.seen = remote.etag]]
          /\ RaiseFrom(w, "PreconditionFailed", "flush", 0)
          /\ UNCHANGED <<interfered, remote>>
       \/ \* the store finalizes the file and returns its metadata
          /\ remote.exists
          /\ Holds(issued.cond, remote)
          /\ remote' = Flushed(remote)
          /\ flushLog' = [flushLog EXCEPT ![w] =
                 [issued EXCEPT !.ok = TRUE, !.seen = remote.etag,
                                !.data = remote.data]]
          /\ result' = [result EXCEPT ![w] = Returned("metadata")]
          /\ pc' = [pc EXCEPT ![w] = "done"]
          /\ interfered' = [interfered EXCEPT
                 ![Other(w)] = @ \/ Interferes(Other(w))]
    /\ UNCHANGED <<probe, args, mac, strategy, chunk, progress, createLog>>

\* ------------------------------------------------------------------- Next

Next ==
    \E w \in Writers :
       \/ Upload(w)
       \/ Create(w)
       \/ SelectStrategy(w)
       \/ ShortRead(w)
       \/ Dispatch(w)
       \/ \E k \in DOMAIN chunk[w] : AppendOk(w, k)
       \/ \E k \in DOMAIN chunk[w] : AppendFail(w, k)
       \/ UploadReturns(w)
       \/ UploadRaises(w)
       \/ Flush(w)

Spec == Init /\ [][Next]_vars

\* every collaborator call returns or fails, and the calling thread runs: a
\* step of the call that stays possible is taken, and a chunk in flight is
\* accepted or fails
Fairness ==
    \A w \in Writers :
       /\ WF_vars(Upload(w))
       /\ WF_vars(Create(w))
       /\ WF_vars(SelectStrategy(w))
       /\ WF_vars(ShortRead(w))
       /\ WF_vars(Dispatch(w))
       /\ WF_vars(UploadReturns(w))
       /\ WF_vars(UploadRaises(w))
       /\ WF_vars(Flush(w))
       /\ \A k \in 1 .. MaxLen : WF_vars(AppendOk(w, k) \/ AppendFail(w, k))

\* the calls whose termination is followed: one writer with any length,
\* stream, chunk size, concurrency and overwrite flag, or two writers that
\* overwrite the same path together
LiveArgs ==
    { a \in FullArgs :
        /\ a.mac \in {NoConditions, Mac(FirstEtag, None, None, None)}
        /\ a.kw \in {NoKw, [properties |-> TRUE, umask |-> FALSE,
                                permissions |-> FALSE]} }

LiveRaceArgs ==
    { a \in RaceArgs : a.length = 1 /\ a.overwrite /\ a.mac = NoConditions }

InitLive ==
    /\ Init
    /\ IF pc[2] = "off"
       THEN args[1] \in LiveArgs
       ELSE \A w \in Writers : args[w] \in LiveRaceArgs

SpecLive == InitLive /\ [][Next]_vars /\ Fairness

\* the object the caller passed as modified_access_conditions: kwargs.pop
\* hands the call a reference to it, so the assignments of the call are
\* assignments to the caller's object
CallerObject(w) == mac[w]

\* ------------------------------------------------------------ the claims

Started(w) == pc[w] \notin {"idle", "off"}
Done(w) == pc[w] = "done"
Succeeded(w) == result[w].kind = "metadata"
NoCallerConditions(w) == args[w].mac = NoConditions
DefaultInjected == Mac(None, Star, None, None)

\* C1: a call whose length is 0 issues no create, no chunk upload and no
\* flush, whatever its other arguments, and returns empty metadata.
C1_ZeroLengthNoCalls ==
    \A w \in Writers :
       args[w].length = 0 =>
          /\ createLog[w].n = 0
          /\ chunk[w] = <<>>
          /\ flushLog[w].n = 0
          /\ Started(w) => Done(w) /\ result[w] = Returned("empty")

C1_Witness ==
    \E w \in Writers :
       /\ args[w].length = 0 /\ Done(w) /\ result[w] = Returned("empty")
       /\ args[w].overwrite /\ KwSet(args[w].kw) /\ any_conditions(args[w].mac)

\* C2: a call that succeeds has issued flush exactly once, with position
\* equal to the declared length and close = true, and when flush was issued
\* every chunk of the upload was uploaded: none in flight, none pending.
C2_FlushOnceAfterAllChunks ==
    \A w \in Writers :
       Succeeded(w) =>
          /\ flushLog[w].n = 1
          /\ flushLog[w].position = args[w].length
          /\ flushLog[w].close
          /\ flushLog[w].unsettled = 0
          /\ Uploaded(w) = 1 .. NumChunks(args[w])

C2_Witness ==
    \E w \in Writers :
       /\ Succeeded(w) /\ NumChunks(args[w]) >= 2
       /\ args[w].max_concurrency >= 2
       /\ flushLog[w].position = args[w].length /\ flushLog[w].position > 0

\* C3: when a chunk upload of a call has failed, the call issues no flush
\* and does not return metadata; it ends with the error of a failed chunk
\* (or has ended, before that chunk failed, with the error of a short read).
C3_ChunkFailureNoFlush ==
    \A w \in Writers :
       Failed(w) # {} =>
          /\ flushLog[w].n = 0
          /\ ~Succeeded(w)
          /\ Done(w) =>
                /\ result[w].kind = "error"
                /\ \/ result[w].op = "chunk" /\ result[w].at \in Failed(w)
                   \/ result[w].err = "ShortReadError"

C3_Witness ==
    \E w \in Writers :
       /\ Done(w) /\ result[w].op = "chunk"
       /\ Failed(w) # {} /\ Uploaded(w) # {}

\* C4: with overwrite = true, the conditions flush carries are if-match =
\* the ETag returned by this call's create and nothing else, whatever the
\* caller supplied.
C4_FlushPinnedToCreate ==
    \A w \in Writers :
       args[w].overwrite /\ flushLog[w].n > 0 =>
          /\ createLog[w].ok
          /\ flushLog[w].cond = Mac(createLog[w].etag, None, None, None)

C4_Witness ==
    \E w \in Writers :
       /\ args[w].overwrite /\ flushLog[w].n > 0
       /\ Truthy(args[w].mac.if_unmodified_since)
       /\ Truthy(args[w].mac.if_match)
       /\ args[w].mac.if_match # createLog[w].etag

\* C5: when another writer's create or flush took effect between the create
\* and the flush of an overwrite = true call, the flush of that call does
\* not succeed: unless the request fails in transport, the store rejects it
\* with PreconditionFailed.
C5_InterferedFlushRejected ==
    \A w \in Writers :
       interfered[w] /\ flushLog[w].n > 0 =>
          \/ result[w] = Raised("PreconditionFailed", "flush", 0)
          \/ result[w] = Raised("TransportError", "flush", 0) /\ flushLog[w].seen = None

C5_Witness ==
    \E w \in Writers :
       /\ args[w].overwrite /\ interfered[w]
       /\ result[w] = Raised("PreconditionFailed", "flush", 0)

\* C6 as stated, for the calls that create the file: whenever the flush of
\* an overwrite = true call succeeds, the finalized file holds, at every
\* offset of the upload, bytes uploaded by that call.
C6_OnlyOwnBytes ==
    \A w \in Writers :
       args[w].overwrite /\ Succeeded(w) =>
          \A o \in Offsets :
             o < UploadSize(args[w]) => flushLog[w].data[o] = w

\* C6 amended: of the writes after create only the flush is conditioned.
\* When the flush of an overwrite = true call succeeds, the version it
\* finalizes is the one this call's create made, so the finalized file
\* holds, at every offset of the upload, bytes appended after that create:
\* by this call or, range uploads being unconditioned, by another writer.
C6_FlushFinalizesCreatedVersion ==
    \A w \in Writers :
       args[w].overwrite /\ Succeeded(w) =>
          /\ flushLog[w].seen = createLog[w].etag
          /\ \A o \in Offsets :
                o < UploadSize(args[w]) => flushLog[w].data[o] \in Writers

C6_Witness ==
    \E w \in Writers :
       /\ args[w].overwrite /\ Succeeded(w)
       /\ \E o \in Offsets :
             o < UploadSize(args[w]) /\ flushLog[w].data[o] = Other(w)

\* C7 as stated: a call with overwrite = false, a length other than 0 and no
\* predicate supplied (and no properties, umask or permissions, which are
\* rejected) has, when it ends, issued a create call carrying
\* if-none-match = '*'.
C7_CreateCarriesDefault ==
    \A w \in Writers :
       Done(w) /\ ~args[w].overwrite /\ args[w].length # 0
              /\ NoCallerConditions(w) /\ ~KwSet(args[w].kw) =>
          createLog[w].n >= 1 /\ createLog[w].cond.if_none_match = Star

\* C7 amended: such a call issues no create call; if-none-match = '*' is set
\* in its conditions object, alone, and flush carries it.
C7_FlushCarriesDefault ==
    \A w \in Writers :
       Started(w) /\ ~args[w].overwrite /\ args[w].length # 0
                  /\ NoCallerConditions(w) =>
          /\ createLog[w].n = 0
          /\ mac[w] = DefaultInjected
          /\ flushLog[w].n > 0 => flushLog[w].cond = DefaultInjected

C7_Witness ==
    \E w \in Writers :
       /\ ~args[w].overwrite /\ args[w].length # 0 /\ NoCallerConditions(w)
       /\ flushLog[w].n > 0 /\ flushLog[w].cond.if_none_match = Star

\* C8 as stated: with overwrite = false, no predicate supplied and the file
\* in existence (no other writer at work), the call fails with
\* PreconditionFailed at the create step, having issued no chunk upload and
\* no flush.
C8_FailsAtCreate ==
    \A w \in Writers :
       /\ Started(w) /\ pc[Other(w)] = "off" /\ remote.exists
       /\ ~args[w].overwrite /\ args[w].length # 0
       /\ NoCallerConditions(w) /\ ~KwSet(args[w].kw)
       => /\ ChunksIssued(w) = {}
          /\ flushLog[w].n = 0
          /\ Done(w) => result[w] = Raised("PreconditionFailed", "create", 0)

\* C8 amended: with overwrite = false and no predicate supplied the call
\* issues no create, so nothing fails at a create step: its chunks are
\* uploaded, and the flush is what the store rejects with PreconditionFailed
\* when the file exists. The call never succeeds.
C8_FailsAtFlush ==
    \A w \in Writers :
       ~args[w].overwrite /\ args[w].length # 0 /\ NoCallerConditions(w) =>
          /\ createLog[w].n = 0
          /\ ~Succeeded(w)
          /\ flushLog[w].seen # None =>
                result[w] = Raised("PreconditionFailed", "flush", 0)

C8_Witness ==
    \E w \in Writers :
       /\ ~args[w].overwrite /\ args[w].length # 0 /\ NoCallerConditions(w)
       /\ pc[Other(w)] = "off"
       /\ Uploaded(w) = 1 .. NumChunks(args[w]) /\ Uploaded(w) # {}
       /\ flushLog[w].seen # None
       /\ result[w] = Raised("PreconditionFailed", "flush", 0)

\* C9 as stated: a call that has issued a chunk upload or a flush has had a
\* create call complete successfully before, for both values of overwrite.
C9_CreateBeforeAll ==
    \A w \in Writers :
       ChunksIssued(w) # {} \/ flushLog[w].n > 0 => createLog[w].ok

\* C9 amended: this holds of the calls with overwrite = true, which issue
\* create exactly once before the first chunk upload and before flush; a call
\* with overwrite = false issues no create at all.
C9_CreateBeforeWhenOverwrite ==
    \A w \in Writers :
       /\ args[w].overwrite /\ (pc[w] \in {"select", "upload", "flush"}
                                \/ ChunksIssued(w) # {} \/ flushLog[w].n > 0)
             => createLog[w].ok /\ createLog[w].n = 1
       /\ ~args[w].overwrite => createLog[w].n = 0

C9_Witness ==
    \E w \in Writers :
       /\ args[w].overwrite /\ createLog[w].ok
       /\ ChunksIssued(w) # {} /\ flushLog[w].n > 0

\* C10 as stated: with overwrite = true the create call carries no
\* if-none-match and no if-match, even when the caller supplied them.
C10_CreateUnconditional ==
    \A w \in Writers :
       args[w].overwrite /\ createLog[w].n > 0 =>
          /\ createLog[w].cond.if_none_match = None
          /\ createLog[w].cond.if_match = None

\* C10 amended: the create call, issued only with overwrite = true, carries
\* the predicates the caller supplied, all four unchanged; it is
\* unconditional only when the caller supplied none, and the default
\* if-none-match = '*' is never added to it.
C10_CreateCarriesCallerConditions ==
    \A w \in Writers :
       createLog[w].n > 0 =>
          args[w].overwrite /\ createLog[w].cond = args[w].mac

C10_Witness ==
    \E w \in Writers :
       /\ args[w].overwrite /\ createLog[w].n > 0
       /\ createLog[w].cond.if_none_match = Star
       /\ result[w] = Raised("PreconditionFailed", "create", 0)

\* C11: a call with overwrite = false, a length other than 0 and one of
\* properties, umask, permissions set is rejected with ValueError, and has
\* issued no create, no chunk upload and no flush.
C11_KwRejectedBeforeCalls ==
    \A w \in Writers :
       Started(w) /\ ~args[w].overwrite /\ args[w].length # 0
                  /\ args[w].kw # NoKw =>
          /\ Done(w)
          /\ result[w] = Raised("ValueError", "config", 0)
          /\ createLog[w].n = 0
          /\ chunk[w] = <<>>
          /\ flushLog[w].n = 0

C11_Witness ==
    \E w \in Writers :
       /\ ~args[w].overwrite /\ args[w].length = NoLength
       /\ args[w].kw = [properties |-> FALSE, umask |-> FALSE, permissions |-> TRUE]
       /\ result[w] = Raised("ValueError", "config", 0)

\* C12 as stated: a call is rejected with ValueError only when the default
\* if-none-match = '*' was injected, that is when the caller supplied no
\* predicate.
C12_RejectedOnlyWithDefault ==
    \A w \in Writers :
       result[w] = Raised("ValueError", "config", 0) =>
          NoCallerConditions(w) /\ mac[w] = DefaultInjected

\* C12 amended: with overwrite = false the rejection does not depend on the
\* default: a call whose caller supplied a predicate together with
\* properties, umask or permissions is rejected with ValueError as well, its
\* conditions left as supplied.
C12_RejectedWithCallerConditions ==
    \A w \in Writers :
       Started(w) /\ ~args[w].overwrite /\ args[w].length # 0
                  /\ args[w].kw # NoKw /\ ~NoCallerConditions(w) =>
          /\ result[w] = Raised("ValueError", "config", 0)
          /\ mac[w] = args[w].mac

C12_Witness ==
    \E w \in Writers :
       /\ ~args[w].overwrite /\ args[w].kw # NoKw
       /\ Truthy(args[w].mac.if_match) /\ mac[w].if_none_match = None
       /\ result[w] = Raised("ValueError", "config", 0)

\* --------------------------------------------------- the pure computations

\* the session variables of a run that holds no session
Parked ==
    /\ pc = [w \in Writers |-> "off"]
    /\ args = [w \in Writers |-> IdleArgs]
    /\ mac = [w \in Writers |-> NoConditions]
    /\ strategy = [w \in Writers |-> "none"]
    /\ chunk = [w \in Writers |-> <<>>]
    /\ progress = [w \in Writers |-> 0]
    /\ result = [w \in Writers |-> Running]
    /\ createLog = [w \in Writers |-> NotIssued]
    /\ flushLog = [w \in Writers |-> NotFlushed]
    /\ interfered = [w \in Writers |-> FALSE]
    /\ remote = [exists |-> FALSE, etag |-> None, data |-> [o \in Offsets |-> 0]]

\* the inputs of the choice of the upload path: file_settings, the keyword
\* arguments and what the stream object offers
SelectInputs ==
    [kind : {"select"}, use_byte_buffer : BOOLEAN, validate_content : BOOLEAN,
     chunk_size : ChunkSizes, threshold : {1, MaxLen + 1},
     has_seekable : BOOLEAN, seekable : BOOLEAN,
     has_seek : BOOLEAN, has_tell : BOOLEAN]

\* the if on use_original_upload_path, evaluated on the inputs of the probe
PathOf(p) ==
    IF UseOriginalUploadPath(p.use_byte_buffer, p.validate_content,
                             p.chunk_size, p.threshold, p.has_seekable,
                             p.seekable, p.has_seek, p.has_tell)
    THEN "sequential" ELSE "substream"

\* the path is computed, and computed a second time on the same inputs
SelectPath ==
    /\ probe.kind = "select"
    /\ probe' = [kind |-> "selected", in |-> probe,
                 path |-> PathOf(probe), again |-> PathOf(probe)]
    /\ UNCHANGED sessionVars

\* the inputs of the partition of an upload into chunks: the path that lays
\* the chunks out, the size of the upload and the chunk size
PartitionInputs ==
    [kind : {"partition"}, path : {"substream", "sequential"},
     total : 1 .. MaxTotal, chunk_size : 1 .. MaxTotal,
     chunks : {<<>>}, cursor : {0}]

\* the arguments of an upload of p.total bytes from a stream of that size
PartArgs(p) ==
    [length |-> p.total, chunk_size |-> p.chunk_size, stream_size |-> p.total]

Min(x, y) == IF x <= y THEN x ELSE y

\* the substream path lays out the next view by its index
SplitNext ==
    /\ probe.kind = "partition" /\ probe.path = "substream"
    /\ Len(probe.chunks) < NumChunks(PartArgs(probe))
    /\ LET k == Len(probe.chunks) + 1 IN
          probe' = [probe EXCEPT !.chunks = Append(@,
                       [offset |-> ChunkOffset(PartArgs(probe), k),
                        length |-> ChunkLength(PartArgs(probe), k)])]
    /\ UNCHANGED sessionVars

\* the sequential path reads the next buffer at its cursor: chunk_size
\* bytes, or what is left of the upload
FeedNext ==
    /\ probe.kind = "partition" /\ probe.path = "sequential"
    /\ probe.cursor < probe.total
    /\ LET n == Min(probe.chunk_size, probe.total - probe.cursor) IN
          probe' = [probe EXCEPT
                       !.chunks = Append(@, [offset |-> probe.cursor,
                                             length |-> n]),
                       !.cursor = @ + n]
    /\ UNCHANGED sessionVars

\* the partition is laid out in full
Complete(p) ==
    IF p.path = "substream"
    THEN Len(p.chunks) = NumChunks(PartArgs(p))
    ELSE p.cursor = p.total

\* UnifiedEvaluator: the input types and the types each predefined
\* configuration supports
InputType ==
    {"query_response", "response_only", "query_response_context",
     "query_response_ground_truth", "ground_truth_response", "conversation"}

EVALUATOR_CONFIGS ==
    [coherence |-> {"query_response", "conversation"},
     fluency |-> {"response_only", "conversation"},
     relevance |-> {"query_response", "conversation"},
     similarity |-> {"query_response_ground_truth"},
     retrieval |-> {"query_response_context", "conversation"},
     response_completeness |-> {"ground_truth_response", "conversation"}]

\* _supports_input_type: the first branch of the if / elif chain whose test
\* holds, in the order of the code; "invalid" stands for the exception of
\* the last branch
supports_input_type(has_query, has_response, has_context, has_ground_truth, has_conversation) ==
    IF has_conversation THEN "conversation"
    ELSE IF has_ground_truth /\ has_response THEN "ground_truth_response"
    ELSE IF has_query /\ has_response /\ has_ground_truth
         THEN "query_response_ground_truth"
    ELSE IF has_query /\ has_response /\ has_context
         THEN "query_response_context"
    ELSE IF has_query /\ has_response THEN "query_response"
    ELSE IF has_response THEN "response_only"
    ELSE "invalid"

\* _validate_inputs: passes unless the configuration has input types and
\* the detected one is not among them
validate_inputs(input_types, input_type) ==
    ~(input_types # {} /\ input_type \notin input_types)

\* the keyword arguments of a call of the evaluator: which keys are present,
\* and the configuration of the evaluator
DetectInputs ==
    [kind : {"detect"}, query : BOOLEAN, response : BOOLEAN,
     context : BOOLEAN, ground_truth : BOOLEAN, conversation : BOOLEAN,
     config : DOMAIN EVALUATOR_CONFIGS]

\* __call__: the input type is detected, then validated
Detect ==
    /\ probe.kind = "detect"
    /\ LET t == supports_input_type(probe.query, probe.response,
                                    probe.context, probe.ground_truth,
                                    probe.conversation)
       IN probe' = [kind |-> "detected", in |-> probe, type |-> t,
                    accepted |-> t # "invalid" /\
                        validate_inputs(EVALUATOR_CONFIGS[probe.config], t)]
    /\ UNCHANGED sessionVars

InitPure ==
    Parked /\ probe \in SelectInputs \cup PartitionInputs \cup DetectInputs

NextPure == SelectPath \/ SplitNext \/ FeedNext \/ Detect

SpecPure == InitPure /\ [][NextPure]_vars

\* the source is seekable unless it has a seekable() that answers no; it
\* supports random-access reads when it has seek and tell
SourceSeekable(p) == p.has_seekable => p.seekable
SupportsRandomAccess(p) == p.has_seek /\ p.has_tell

\* C13: the upload path chosen is the sequential one exactly when
\* useByteBufferChunking or validateContent or chunkSize <
\* minLargeChunkThreshold or the source is not seekable or the source lacks
\* random-access read (seek or tell), over every combination of the inputs;
\* otherwise it is the substream one, and computing the choice again on the
\* same inputs gives the same path.
C13_SelectionIsFormula ==
    probe.kind = "selected" =>
       /\ probe.path = "sequential" <=>
             \/ probe.in.use_byte_buffer
             \/ probe.in.validate_content
             \/ probe.in.chunk_size < probe.in.threshold
             \/ ~SourceSeekable(probe.in)
             \/ ~SupportsRandomAccess(probe.in)
       /\ probe.path \in {"sequential", "substream"}
       /\ probe.again = probe.path

C13_Witness ==
    /\ probe.kind = "selected" /\ probe.path = "sequential"
    /\ ~probe.in.use_byte_buffer /\ ~probe.in.validate_content
    /\ probe.in.chunk_size >= probe.in.threshold
    /\ probe.in.has_seekable /\ ~probe.in.seekable
    /\ probe.in.has_seek /\ probe.in.has_tell

\* C17: for every total size and chunk size the partition is exact: chunk k
\* starts at (k-1) * chunkSize, every chunk but the last is chunkSize long,
\* the last is total mod chunkSize long (chunkSize when that is 0), and each
\* byte of [0, total) lies in exactly one chunk; the sequential path yields
\* the same boundaries as the substream path.
C17_PartitionExact ==
    probe.kind = "partition" /\ Complete(probe) =>
       LET cs == probe.chunk_size
           T == probe.total
           c == probe.chunks
           n == Len(c)
       IN /\ n >= 1
          /\ \A k \in 1 .. n : c[k].offset = (k - 1) * cs
          /\ \A k \in 1 .. (n - 1) : c[k].length = cs
          /\ c[n].length = (IF T % cs = 0 THEN cs ELSE T % cs)
          /\ \A o \in 0 .. (T - 1) :
                Cardinality({k \in 1 .. n :
                    o \in c[k].offset .. (c[k].offset + c[k].length - 1)}) = 1
          /\ \A k \in 1 .. n : c[k].offset + c[k].length <= T

\* 250MB in chunks of 100MB, in units of 50MB
C17_Witness ==
    /\ probe.kind = "partition" /\ probe.path = "substream"
    /\ probe.total = 5 /\ probe.chunk_size = 2 /\ Complete(probe)
    /\ [k \in 1 .. Len(probe.chunks) |-> probe.chunks[k].length] = <<2, 2, 1>>

\* C14: the upload path is chosen once per call, after the create step and
\* before the first chunk, and never changes: a call whose chunks are being
\* uploaded has length # 0 and exactly one path, chosen when no chunk was
\* laid out yet and, with overwrite, after create succeeded; every later
\* step leaves the path as it is.
C14_StrategyChosenOnce ==
    /\ [](\A w \in Writers :
            /\ pc[w] \in {"upload", "flush"} \/ chunk[w] # <<>> =>
                  /\ strategy[w] \in {"sequential", "substream"}
                  /\ args[w].length # 0
            /\ strategy[w] # "none" =>
                  /\ Started(w)
                  /\ args[w].overwrite => createLog[w].ok)
    /\ [][\A w \in Writers :
            /\ strategy[w] # "none" => strategy'[w] = strategy[w]
            /\ strategy'[w] # strategy[w] =>
                  /\ pc[w] = "select" /\ chunk[w] = <<>>
                  /\ createLog'[w] = createLog[w]]_vars

C14_Witness ==
    \E w \in Writers :
       /\ strategy[w] = "substream" /\ args[w].overwrite /\ createLog[w].ok
       /\ Cardinality(Uploaded(w)) >= 2 /\ Succeeded(w)

\* C15 as stated: whenever a call succeeds, the lengths of its uploaded
\* chunks sum to the declared length, and the position given to flush is
\* that sum.
C15_SumIsLengthAndPosition ==
    \A w \in Writers :
       Succeeded(w) =>
          /\ SumLength(args[w], Uploaded(w)) = args[w].length
          /\ flushLog[w].position = SumLength(args[w], Uploaded(w))

\* C16: on the sequential path, when the stream holds fewer bytes than the
\* declared length, flush is never issued and the call does not succeed: it
\* ends with ShortReadError, raised when the feeder reaches the end of the
\* stream, unless the upload of an earlier chunk failed first and its error
\* ended the call.
C16_ShortReadNoFlush ==
    \A w \in Writers :
       /\ strategy[w] = "sequential"
       /\ args[w].length # NoLength
       /\ args[w].stream_size < args[w].length
       => /\ flushLog[w].n = 0
          /\ pc[w] # "flush"
          /\ ~Succeeded(w)
          /\ Done(w) =>
                /\ result[w].kind = "error"
                /\ \/ result[w].err = "ShortReadError"
                   \/ result[w].op = "chunk" /\ result[w].at \in Failed(w)
                /\ result[w].err = "ShortReadError" =>
                      ~Readable(args[w], result[w].at)

C16_Witness ==
    \E w \in Writers :
       /\ strategy[w] = "sequential"
       /\ args[w].length = 2 /\ args[w].stream_size = 1
       /\ args[w].chunk_size = 1
       /\ Uploaded(w) = {1}
       /\ result[w] = Raised("ShortReadError", "read", 2)
       /\ flushLog[w].n = 0

\* C18: in every reachable state the number of chunk uploads in flight is at
\* most max_concurrency; while max_concurrency uploads are in flight no
\* further chunk can be dispatched, and a chunk that can be read is
\* dispatched again once fewer are in flight.
C18_InFlightBounded ==
    \A w \in Writers :
       /\ Cardinality(InFlight(w)) <= args[w].max_concurrency
       /\ Cardinality(InFlight(w)) = args[w].max_concurrency =>
             ~ENABLED Dispatch(w)
       /\ /\ pc[w] = "upload" /\ Failed(w) = {} /\ Pending(w) # {}
          /\ Readable(args[w], NextPending(w))
          /\ Cardinality(InFlight(w)) < args[w].max_concurrency
          => ENABLED Dispatch(w)

C18_Witness ==
    \E w \in Writers :
       /\ pc[w] = "upload" /\ Failed(w) = {} /\ Pending(w) # {}
       /\ Readable(args[w], NextPending(w))
       /\ Cardinality(InFlight(w)) = args[w].max_concurrency

\* C19: whatever the order in which concurrent chunks complete, each
\* successful chunk adds exactly its length to the progress counter: while no
\* chunk has failed the counter is the sum of the lengths of the uploaded
\* chunks, every step leaves it or raises it by the length of the chunk that
\* completed, and in a call that succeeds its last value is the total length.
C19_ProgressExact ==
    /\ [](\A w \in Writers :
            /\ pc[w] \in {"upload", "flush"} /\ Failed(w) = {} =>
                  progress[w] = SumLength(args[w], Uploaded(w))
            /\ Succeeded(w) =>
                  /\ progress[w] = SumLength(args[w], Uploaded(w))
                  /\ progress[w] = UploadSize(args[w])
                  /\ args[w].length # NoLength => progress[w] = args[w].length)
    /\ [][\A w \in Writers :
            /\ progress'[w] >= progress[w]
            /\ progress'[w] # progress[w] =>
                  \E k \in InFlight(w) :
                     /\ chunk'[w][k] = "ok"
                     /\ progress'[w] = progress[w] + ChunkLength(args[w], k)]_vars

\* two chunks in flight together completed in the reverse of their order
C19_Witness ==
    \E w \in Writers :
       /\ pc[w] = "upload" /\ args[w].chunk_size = 1
       /\ InFlight(w) = {1} /\ Uploaded(w) = {2} /\ progress[w] = 1

\* C20: once a chunk of a call has failed, or the call has ended with an
\* error, the progress counter is never raised again, also when chunks that
\* were in flight complete successfully afterwards, and it is never lowered.
C20_NoProgressAfterFailure ==
    [][\A w \in Writers :
          /\ Failed(w) # {} \/ result[w].kind = "error" =>
                progress'[w] = progress[w]
          /\ progress'[w] >= progress[w]]_vars

\* a chunk failed, and a chunk that was in flight completed afterwards
C20_Witness ==
    \E w \in Writers :
       /\ Failed(w) # {} /\ Uploaded(w) # {}
       /\ progress[w] < SumLength(args[w], Uploaded(w))

\* C21: once a chunk upload of a call has failed, no further chunk is
\* dispatched: every step that starts a chunk upload is taken in a state in
\* which no chunk of the call has failed, and no dispatch is possible after.
C21_NoDispatchAfterFailure ==
    /\ [](\A w \in Writers : Failed(w) # {} => ~ENABLED Dispatch(w))
    /\ [][\A w \in Writers :
            InFlight(w)' \ InFlight(w) # {} =>
               Failed(w) = {} /\ Failed(w)' = {}]_vars

\* a chunk failed while a later chunk was still to be dispatched, and the
\* call ended with that chunk never started
C21_Witness ==
    \E w \in Writers :
       /\ Failed(w) = {1} /\ Pending(w) # {} /\ Done(w)
       /\ result[w] = Raised("ChunkError", "chunk", 1)

\* C23: nothing is retried: a call issues create at most once and flush at
\* most once, and after create failed (rejected or in transport) the call
\* has ended with that error, with no chunk laid out or uploaded and no
\* flush issued.
C23_NoRetry ==
    \A w \in Writers :
       /\ createLog[w].n <= 1
       /\ flushLog[w].n <= 1
       /\ createLog[w].n = 1 /\ ~createLog[w].ok =>
             /\ Done(w)
             /\ result[w].kind = "error" /\ result[w].op = "create"
             /\ result[w].err \in {"PreconditionFailed", "TransportError"}
             /\ chunk[w] = <<>>
             /\ strategy[w] = "none"
             /\ flushLog[w].n = 0

C23_Witness ==
    \E w \in Writers :
       /\ createLog[w].n = 1 /\ ~createLog[w].ok
       /\ result[w] = Raised("PreconditionFailed", "create", 0)
       /\ pc[Other(w)] = "off"

\* C24: the conditions object is written at most once per call and only
\* before the chunks are laid out: a step that changes it starts from the
\* object as the caller supplied it, with no chunk laid out; and the chunk
\* uploads do not depend on it: a chunk in flight can be accepted exactly
\* when the file exists, whatever the object holds.
C24_ConditionsSetOnce ==
    /\ [](\A w \in Writers : \A k \in InFlight(w) :
            ENABLED AppendOk(w, k) <=> remote.exists)
    /\ [][\A w \in Writers :
            mac'[w] # mac[w] =>
               /\ mac[w] = args[w].mac
               /\ pc[w] \in {"idle", "create"}
               /\ chunk[w] = <<>> /\ chunk'[w] = <<>>
               /\ flushLog[w].n = 0]_vars

\* chunks in flight under an object that the store would reject
C24_Witness ==
    \E w \in Writers :
       /\ mac[w] = DefaultInjected /\ remote.exists
       /\ InFlight(w) # {} /\ Uploaded(w) # {}

\* C22: when every collaborator call returns or fails, every call ends: the
\* upload call returns or raises once every chunk is uploaded or one has
\* failed, also when the failure comes while max_concurrency uploads are in
\* flight, and upload_datalake_file then ends with metadata or an error.
C22_Terminates ==
    \A w \in Writers :
       /\ <>(pc[w] \in {"off", "done"})
       /\ (pc[w] = "upload" /\ (Failed(w) # {} \/ Uploaded(w) = DOMAIN chunk[w]))
             ~> (pc[w] # "upload")
       /\ [](Done(w) => result[w].kind \in {"metadata", "empty", "error"})

\* a chunk failed while max_concurrency uploads were in flight and a chunk
\* was still to be dispatched, and the call has ended
C22_Witness ==
    \E w \in Writers :
       /\ Done(w) /\ result[w].op = "chunk"
       /\ args[w].max_concurrency = 1 /\ Failed(w) = {1} /\ Pending(w) = {2}

\* C25 as stated: the object the caller supplied as precondition is never
\* changed: when the call has returned or failed, also with ValueError, it
\* holds the four values it held before the call.
C25_CallerObjectUnchanged ==
    \A w \in Writers : Done(w) => CallerObject(w) = args[w].mac

\* C26: no error is swallowed: when create, a chunk upload or flush of a
\* call has failed, the call never returns normally, neither metadata nor
\* the empty result, and once it has ended it has ended with an error.
C26_ErrorsSurface ==
    \A w \in Writers :
       \/ createLog[w].n > 0 /\ ~createLog[w].ok
       \/ Failed(w) # {}
       \/ flushLog[w].n > 0 /\ ~flushLog[w].ok
       => /\ result[w].kind \notin {"metadata", "empty"}
          /\ pc[w] # "flush" \/ flushLog[w].n = 0
          /\ Done(w) => result[w].kind = "error"
          /\ flushLog[w].n > 0 =>
                Done(w) /\ result[w].op = "flush"

C26_Witness ==
    \E w \in Writers :
       /\ flushLog[w].n = 1 /\ ~flushLog[w].ok
       /\ result[w] = Raised("TransportError", "flush", 0)
       /\ Uploaded(w) # {}

\* C27: the zero-length return comes before the checks: a call with length
\* 0, overwrite = false and properties, umask or permissions set returns
\* the empty result, not ValueError, and its conditions object is left as
\* the caller supplied it, without if-none-match '*'.
C27_ZeroLengthBeforeChecks ==
    \A w \in Writers :
       Started(w) /\ args[w].length = 0 /\ ~args[w].overwrite
                  /\ args[w].kw # NoKw =>
          /\ Done(w)
          /\ result[w] = Returned("empty")
          /\ mac[w] = args[w].mac

C27_Witness ==
    \E w \in Writers :
       /\ args[w].length = 0 /\ ~args[w].overwrite /\ args[w].kw.umask
       /\ NoCallerConditions(w) /\ mac[w] = NoConditions
       /\ result[w] = Returned("empty")

\* C28: in a call with overwrite = false whose caller supplied at least one
\* of the four predicates nothing is injected: the conditions object stays
\* as supplied, and flush carries exactly the caller's four predicates.
C28_CallerConditionsKept ==
    \A w \in Writers :
       ~args[w].overwrite /\ ~NoCallerConditions(w) =>
          /\ mac[w] = args[w].mac
          /\ flushLog[w].n > 0 => flushLog[w].cond = args[w].mac

C28_Witness ==
    \E w \in Writers :
       /\ ~args[w].overwrite
       /\ args[w].mac = Mac(None, None, None, FirstEtag)
       /\ flushLog[w].n = 1 /\ flushLog[w].ok
       /\ flushLog[w].cond = args[w].mac

\* C29: the position given to flush is the length argument of the call,
\* not the number of bytes uploaded: a call with an absent length does not
\* take the zero-length return, uploads the stream and issues flush with the
\* absent length as position.
C29_FlushAtDeclaredLength ==
    \A w \in Writers :
       /\ flushLog[w].n > 0 => flushLog[w].position = args[w].length
       /\ args[w].length = NoLength =>
             /\ result[w] # Returned("empty")
             /\ pc[w] = "flush" \/ flushLog[w].n > 0 =>
                   /\ Uploaded(w) = 1 .. NumChunks(args[w])
                   /\ SumLength(args[w], Uploaded(w)) = args[w].stream_size

C29_Witness ==
    \E w \in Writers :
       /\ args[w].length = NoLength /\ args[w].stream_size = 2
       /\ SumLength(args[w], Uploaded(w)) = 2
       /\ flushLog[w].n = 1 /\ flushLog[w].position = NoLength

\* C30 as stated: the detection returns the most specific input type for
\* the keys present: an input with query, response and ground_truth and no
\* conversation is detected as query_response_ground_truth, and the
\* similarity configuration accepts it.
C30_MostSpecificDetected ==
    /\ probe.kind = "detected"
    /\ probe.in.query /\ probe.in.response /\ probe.in.ground_truth
    /\ ~probe.in.conversation
    => /\ probe.type = "query_response_ground_truth"
       /\ probe.in.config = "similarity" => probe.accepted

====
